---- MODULE Spec2Model ----
(***************************************************************************)
(* PyHPFEC: the BCH/Golay cyclic coder of pyhpfec/cyclic.py (Spec), the    *)
(* field context of config.py (SpecGF), the rate matcher of rate_match.py  *)
(* (SpecRM) and threads sharing one coder (SpecThreads).                   *)
(*                                                                         *)
(* Bit vectors (numpy uint8 arrays) are sequences over {0,1}; a Python     *)
(* index i is the sequence index i+1.  The state records the coder's       *)
(* fields and, for the last call made on it, the arguments and the result. *)
(***************************************************************************)
EXTENDS Integers, Sequences, FiniteSets

VARIABLES
    pc,                 \* "new", "idle", or the call just made: "encode", "decode", "syndromes"
    n, k, t,            \* BCHGolayCoder.n, .k, .t
    generator_poly,     \* BCHGolayCoder.generator_poly
    r,                  \* BCHGolayCoder.r
    data,               \* argument of the last encode
    caller_data,        \* the caller's array after that encode returned
    codeword,           \* result of the last successful encode
    outcome,            \* "ok", or the exception the last call raised
    input_data,         \* argument of the last decode / _calculate_syndromes
    is_llr,             \* decode's is_llr
    soft_decision,      \* decode's soft_decision
    decoded_data,       \* decode's first result
    errors_corrected,   \* decode's second result
    syndromes,          \* result of the last _calculate_syndromes
    num_test_patterns,  \* decode's num_test_patterns
    algebraic_calls,    \* the words the last decode ran _decode_algebraic on
    hard_word,          \* decode's hard_codeword
    caller_input,       \* the caller's array after the last decode returned
    numpy_wraps,        \* the numpy in use wraps an out-of-range uint8 store
    M, P_poly,          \* arguments of the last GFContext(M, P_poly)
    ctx,                \* the GFContext built (BCHGolayCoder.ctx)
    gf_a, gf_b,         \* arguments of the last gf_multiply / gf_inverse
    gf_result,          \* its result
    original_N, target_N,   \* RateMatcher.original_N, .target_N
    puncturing_pattern,     \* RateMatcher.puncturing_pattern
    rm_codeword,            \* argument of the last puncture
    punctured_codeword,     \* its result
    received_llrs,          \* argument of the last depuncture
    depunctured_llrs,       \* its result
    rm_outcome,             \* "ok", or the exception the last RateMatcher call raised
    th_pc,              \* per thread: where its call on the shared coder stands
    th_op,              \* per thread: the method called
    th_input,           \* per thread: the array the caller passed
    th_data,            \* per call frame: the parameter data / input_data
    th_tmp,             \* per call frame: the local parity / hard_codeword
    th_result           \* per thread: what the call returned

\* the coder and the record of the last call made on it
codervars == <<n, k, t, generator_poly, r, data, caller_data, codeword, outcome,
               input_data, is_llr, soft_decision, decoded_data, errors_corrected,
               syndromes, num_test_patterns, algebraic_calls, hard_word,
               caller_input>>

\* the field context and the record of the last field operation
gfvars == <<numpy_wraps, M, P_poly, ctx, gf_a, gf_b, gf_result>>

\* the rate matcher and the record of the last call made on it
rmvars == <<original_N, target_N, puncturing_pattern, rm_codeword, punctured_codeword,
            received_llrs, depunctured_llrs, rm_outcome>>

\* the calls several threads have in progress on one coder
threadvars == <<th_pc, th_op, th_input, th_data, th_tmp, th_result>>

vars == <<pc, codervars, gfvars, rmvars, threadvars>>

(***************************************************************************)
(* Bounds of the model.                                                    *)
(***************************************************************************)
\* the (n, k, t) a coder is constructed with: (15, 7, 2) is the tests' coder,
\* (15, 8, 1) has n - k equal to the degree of the stored generator
CodeParams == {<<15, 7, 2>>, <<15, 7, 1>>, <<15, 8, 1>>}
\* a decode input differs from the codeword in at most t + ExtraFlips bits
ExtraFlips == 1
\* a syndrome input differs from its base word in at most MaxSyndromeFlips bits
MaxSyndromeFlips == 1
\* encode is called with data of length k - LenSlack .. k + LenSlack
LenSlack == 1
\* the LLR of a bit received reliably is +StrongLLR (bit 0) or -StrongLLR
StrongLLR == 4
\* the positions whose LLR may be weak: -1, 0 or 1, whatever the bit sent
WeakPositions == {0, 1, 7}
\* the num_test_patterns decode is called with; 4 is the default
TestPatternCounts == {2, 4}
\* GFContext(M) is tried for M in 0..MaxDegree
MaxDegree == 17
\* GFContext(M, P_poly) is tried for M in 2..MaxFullDegree with every P_poly
\* in 1..4Q-1, and every pair of operands is multiplied in these fields
MaxFullDegree == 4
\* further GFContext(M, P_poly): x^9 + x^4 + 1 is primitive of degree 9
LargeFields == {<<9, 529>>}
\* the number of threads calling the same coder at once
NumThreads == 2
\* a RateMatcher has original_N in 0..MaxN and punctures arrays of 0..MaxN values
MaxN == 4
\* a puncturing pattern has 0..MaxPatternLen entries
MaxPatternLen == 3
\* the values of the arrays punctured and depunctured
SoftValues == {-1, 0, 1}

(***************************************************************************)
(* numpy helpers.                                                          *)
(***************************************************************************)
Bit == {0, 1}

\* np.zeros(len)
Zeros(len) == [i \in 1..len |-> 0]

\* all bit vectors of length len
BitVectors(len) == [1..len -> Bit]

\* a[start:stop] of a one-dimensional array: negative indices count from the
\* end, out-of-range indices are clipped, an empty range gives an empty array
PySlice(a, start, stop) ==
    LET len == Len(a)
        clip(x) == IF x < 0
                   THEN (IF x + len < 0 THEN 0 ELSE x + len)
                   ELSE (IF x > len THEN len ELSE x)
        lo == clip(start)
        hi == clip(stop)
    IN  IF lo >= hi THEN <<>> ELSE SubSeq(a, lo + 1, hi)

\* a ^ b on bits
Xor(a, b) == (a + b) % 2

\* frame[i : i + len(g)] ^= g
XorAt(frame, i, g) ==
    [j \in 1..Len(frame) |->
        IF j - 1 >= i /\ j - 1 < i + Len(g) THEN Xor(frame[j], g[j - i]) ELSE frame[j]]

\* the word with the bits at the (Python) positions F flipped
Flip(word, F) == [j \in 1..Len(word) |-> IF (j - 1) \in F THEN 1 - word[j] ELSE word[j]]

\* subsets of 0..len-1 with at most m elements
FlipSets(len, m) == {F \in SUBSET (0..(len - 1)) : Cardinality(F) <= m}

(***************************************************************************)
(* _numba_cyclic_division                                                  *)
(***************************************************************************)
\* DivisionLoop with the test on working_frame[i] inverted
RECURSIVE DivisionLoopInverted(_, _, _, _)
DivisionLoopInverted(working_frame, generator, i, kk) ==
    IF i >= kk THEN working_frame
    ELSE DivisionLoopInverted(IF working_frame[i + 1] = 0
                              THEN XorAt(working_frame, i, generator)
                              ELSE working_frame,
                              generator, i + 1, kk)

\* the loop "for i in range(k)" from iteration i on
RECURSIVE DivisionLoop(_, _, _, _)
DivisionLoop(working_frame, generator, i, kk) ==
    IF i >= kk THEN working_frame
    ELSE DivisionLoop(IF working_frame[i + 1] = 1
                      THEN XorAt(working_frame, i, generator)
                      ELSE working_frame,
                      generator, i + 1, kk)

\* working_frame after the k conditional XOR steps
WorkingFrame(d, generator, kk) ==
    DivisionLoop(d \o Zeros(Len(generator) - 1), generator, 0, kk)

\* the returned slice working_frame[n - g_len + 1 : n], with n = len(data)
_numba_cyclic_division(d, generator, kk) ==
    LET g_len == Len(generator)
        nn    == Len(d)
    IN  PySlice(WorkingFrame(d, generator, kk), nn - g_len + 1, nn)

(***************************************************************************)
(* BCHGolayCoder                                                           *)
(***************************************************************************)
\* the generator polynomial __init__ stores, whatever n, k, t are
GeneratorPoly == <<1, 0, 1, 1, 0, 1, 1, 1>>

\* a shape check that lets arrays longer than k through
ShapeOkAtLeast(d, kk) == Len(d) >= kk

\* encode's shape check
ShapeOk(d, kk) == Len(d) = kk

\* encode with the two halves concatenated in the other order
encodeParityFirst(d, generator, kk) == _numba_cyclic_division(d, generator, kk) \o d

\* encode's result when the shape check passes
encode(d, generator, kk) == d \o _numba_cyclic_division(d, generator, kk)

\* the caller's array had the division worked in place: the XOR steps clear
\* every data bit
data_after_encode_in_place(d) == Zeros(Len(d))

\* the caller's array after encode: both np.concatenate calls build new
\* arrays, nothing is written through data
data_after_encode(d) == d

\* _calculate_syndromes returning the whole S_0..S_2t buffer
_calculate_syndromes_with_S0(word, tt) == Zeros(2 * tt + 1)

\* _calculate_syndromes: the kernel call is commented out, zeros are returned
_calculate_syndromes(word, tt) == Zeros(2 * tt)

\* _decode_algebraic taking the data from the last k bits
_decode_algebraic_tail(hard_codeword, kk) ==
    <<PySlice(hard_codeword, Len(hard_codeword) - kk, Len(hard_codeword)), 0>>

\* _decode_algebraic: no location is corrected; <<decoded_data, errors_corrected>>
_decode_algebraic(hard_codeword, kk) ==
    LET corrected_codeword == hard_codeword
    IN  <<PySlice(corrected_codeword, 0, kk), 0>>

\* llr_to_hard_bits deciding 1 for an LLR of zero as well
llr_to_hard_bits_nonpositive(llrs) ==
    [i \in 1..Len(llrs) |-> IF llrs[i] <= 0 THEN 1 ELSE 0]

\* llr_to_hard_bits
llr_to_hard_bits(llrs) == [i \in 1..Len(llrs) |-> IF llrs[i] < 0 THEN 1 ELSE 0]

\* decode whose Chase branch reports one corrected bit
decodeChaseCountsOne(input, llr, soft, kk) ==
    IF soft /\ llr
    THEN <<PySlice(llr_to_hard_bits(input), 0, kk), 1>>
    ELSE _decode_algebraic(IF llr THEN llr_to_hard_bits(input) ELSE input, kk)

\* decode taking the Chase branch whenever soft_decision is set
decodeChaseWhenSoft(input, llr, soft, kk) ==
    IF soft
    THEN <<PySlice(llr_to_hard_bits(input), 0, kk), 0>>
    ELSE _decode_algebraic(IF llr THEN llr_to_hard_bits(input) ELSE input, kk)

\* decode: the Chase branch keeps best_codeword = hard_codeword and returns 0
decode(input, llr, soft, kk) ==
    IF soft /\ llr
    THEN <<PySlice(llr_to_hard_bits(input), 0, kk), 0>>
    ELSE _decode_algebraic(IF llr THEN llr_to_hard_bits(input) ELSE input, kk)

\* decode's hard_codeword: the hard decision of the LLRs, or the input bits
\* as uint8
hard_decision(input, llr) == IF llr THEN llr_to_hard_bits(input) ELSE input

\* the caller's array after decode: llr_to_hard_bits, np.abs, astype and copy
\* all build new arrays, nothing is written through input_data
input_after_decode(input) == input

\* the Chase branch's best_codeword when it returns: assigned hard_codeword
\* once and never again
best_codeword(input) == llr_to_hard_bits(input)

\* the words decode passes to _decode_algebraic: the hard decision in the
\* hard branch; none in the Chase branch, whose loop over the test patterns
\* is a comment
decode_calls(input, llr, soft) ==
    IF soft /\ llr THEN {}
    ELSE {IF llr THEN llr_to_hard_bits(input) ELSE input}

(***************************************************************************)
(* GFContext (config.py).  A table is a function on 0..Q-1; its entries    *)
(* are uint8.                                                              *)
(***************************************************************************)
\* P_poly = None
None == -1

\* a ^ b on Python integers
RECURSIVE BitXor(_, _)
BitXor(a, b) ==
    IF a = 0 THEN b
    ELSE IF b = 0 THEN a
    ELSE (((a % 2) + (b % 2)) % 2) + 2 * BitXor(a \div 2, b \div 2)

\* the built-in primitive polynomials of __init__
standard_polys ==
    [m \in {4, 6, 8} |-> CASE m = 4 -> 19 [] m = 6 -> 67 [] m = 8 -> 285]

\* one pass of the loop body on alpha_i: "alpha_i <<= 1", then the reduction
\* "if alpha_i & Q: alpha_i ^= P_poly".  An alpha_i >= Q is kept as it is: the
\* loop raises at the start of the next pass and never shifts it again.
NextAlpha(alpha_i, QQ, P) ==
    IF alpha_i >= QQ THEN alpha_i
    ELSE LET shifted == alpha_i * 2
         IN  IF (shifted \div QQ) % 2 = 1 THEN BitXor(shifted, P) ELSE shifted

\* the values alpha_i takes at the start of cnt successive passes, from start
RECURSIVE AlphaSeq(_, _, _, _)
AlphaSeq(start, cnt, QQ, P) ==
    IF cnt <= 0 THEN <<>>
    ELSE IF cnt = 1 THEN <<start>>
    ELSE LET h     == cnt \div 2
             left  == AlphaSeq(start, h, QQ, P)
             right == AlphaSeq(NextAlpha(left[h], QQ, P), cnt - h, QQ, P)
         IN  left \o right

\* the result of a failed construction: no context object
NoContext(error) ==
    [outcome |-> error, M |-> 0, Q |-> 0, P_poly |-> 0,
     anti_log_table |-> <<>>, log_table |-> <<>>, inv_table |-> <<>>]

\* _build_tables.  alphas[i + 1] is alpha_i at the start of pass i.  Pass i
\* raises RuntimeError when alpha_i >= Q; storing a value above 255 in a uint8
\* table wraps modulo 256 or raises OverflowError, as the numpy in use does
\* (wraps tells which).  log_table[e] holds the last i written at e.
_build_tables(MM, QQ, P, wraps) ==
    LET Q_minus_1 == QQ - 1
        alphas    == AlphaSeq(1, Q_minus_1, QQ, P)
        bad       == {i \in 0..(Q_minus_1 - 1) :
                         \/ alphas[i + 1] >= QQ
                         \/ ~wraps /\ (alphas[i + 1] > 255 \/ i > 255)}
        first     == CHOOSE i \in bad : \A j \in bad : i <= j
        anti      == [i \in 0..(QQ - 1) |->
                         IF i < Q_minus_1 THEN alphas[i + 1] % 256 ELSE 0]
        written   == [e \in 0..(QQ - 1) |->
                         {i \in 0..(Q_minus_1 - 1) : alphas[i + 1] = e}]
        log       == [e \in 0..(QQ - 1) |->
                         IF e = 0 THEN Q_minus_1 % 256
                         ELSE IF written[e] = {} THEN 0
                         ELSE (CHOOSE i \in written[e] :
                                   \A j \in written[e] : j <= i) % 256]
        inv       == [e \in 0..(QQ - 1) |->
                         IF e = 0 THEN 0
                         ELSE anti[(Q_minus_1 - log[e]) % Q_minus_1]]
    IN  IF bad # {}
        THEN NoContext(IF alphas[first + 1] >= QQ
                       THEN "RuntimeError" ELSE "OverflowError")
        ELSE IF ~wraps /\ Q_minus_1 > 255
        THEN NoContext("OverflowError")
        ELSE [outcome |-> "ok", M |-> MM, Q |-> QQ, P_poly |-> P,
              anti_log_table |-> anti, log_table |-> log, inv_table |-> inv]

\* GFContext.__init__ looking the polynomial up before it checks the degree
GFContextLookupFirst(MM, P, wraps) ==
    IF P = None /\ MM \notin DOMAIN standard_polys
    THEN NoContext("NotImplementedError")
    ELSE IF ~(2 <= MM /\ MM <= 16) THEN NoContext("ValueError")
    ELSE _build_tables(MM, 2 ^ MM, IF P = None THEN standard_polys[MM] ELSE P, wraps)

\* GFContext.__init__
GFContext(MM, P, wraps) ==
    IF ~(2 <= MM /\ MM <= 16) THEN NoContext("ValueError")
    ELSE IF P = None /\ MM \notin DOMAIN standard_polys
    THEN NoContext("NotImplementedError")
    ELSE _build_tables(MM, 2 ^ MM, IF P = None THEN standard_polys[MM] ELSE P, wraps)

\* gf_multiply
gf_multiply(a, b, log_tbl, anti_log_tbl, MM) ==
    IF a = 0 \/ b = 0 THEN 0
    ELSE LET log_a == log_tbl[a]
             log_b == log_tbl[b]
             result_idx == (log_a + log_b) % ((2 ^ MM) - 1)
         IN  anti_log_tbl[result_idx]

\* gf_inverse
gf_inverse(a, inv_tbl) == IF a = 0 THEN 0 ELSE inv_tbl[a]

(***************************************************************************)
(* _numba_calculate_syndromes (cyclic.py), the kernel _calculate_syndromes *)
(* does not call.                                                          *)
(***************************************************************************)
\* the XOR of the values[j], j in D, each below 256
XorOf(values, D) ==
    LET bit(b) == Cardinality({j \in D : (values[j] \div (2 ^ b)) % 2 = 1}) % 2
    IN  bit(0) + 2 * bit(1) + 4 * bit(2) + 8 * bit(3)
        + 16 * bit(4) + 32 * bit(5) + 64 * bit(6) + 128 * bit(7)

\* the values current_power takes at the start of cnt successive passes of
\* the inner loop, from start: each pass ends with
\* current_power = gf_multiply(current_power, alpha_i, inv_table, inv_table, M)
RECURSIVE CurrentPowers(_, _, _, _, _)
CurrentPowers(start, cnt, alpha_i, inv_tbl, MM) ==
    IF cnt <= 0 THEN <<>>
    ELSE IF cnt = 1 THEN <<start>>
    ELSE LET h     == cnt \div 2
             left  == CurrentPowers(start, h, alpha_i, inv_tbl, MM)
             right == CurrentPowers(gf_multiply(left[h], alpha_i, inv_tbl, inv_tbl, MM),
                                    cnt - h, alpha_i, inv_tbl, MM)
         IN  left \o right

\* _numba_calculate_syndromes on a word of at least nn bits: S_1 .. S_2t
_numba_calculate_syndromes(word, primitive_element_powers, inv_tbl, MM, QQ, tt, nn) ==
    [i \in 1..(2 * tt) |->
        LET alpha_i == primitive_element_powers[i]
            powers  == CurrentPowers(1, nn, alpha_i, inv_tbl, MM)
        IN  XorOf(powers, {j \in 1..nn : word[j] = 1})]

\* what the kernel reads as codeword[0 .. nn-1]: past the end of a shorter
\* array it reads whatever the memory holds (no bounds check under njit)
KernelViews(word, nn) ==
    IF Len(word) >= nn THEN {SubSeq(word, 1, nn)}
    ELSE {word \o pad : pad \in BitVectors(nn - Len(word))}

\* no RateMatcher has been constructed
NoRateMatcher ==
    /\ original_N = 0 /\ target_N = 0
    /\ puncturing_pattern = <<>>
    /\ rm_codeword = <<>> /\ punctured_codeword = <<>>
    /\ received_llrs = <<>> /\ depunctured_llrs = <<>>
    /\ rm_outcome = "ok"

\* no thread has been started
NoThreads ==
    /\ th_pc = <<>> /\ th_op = <<>> /\ th_input = <<>>
    /\ th_data = <<>> /\ th_tmp = <<>> /\ th_result = <<>>

(***************************************************************************)
(* The state machine.                                                      *)
(***************************************************************************)
Init ==
    /\ pc = "new"
    /\ n = 0 /\ k = 0 /\ t = 0
    /\ generator_poly = <<>>
    /\ r = 0
    /\ data = <<>> /\ caller_data = <<>> /\ codeword = <<>>
    /\ outcome = "ok"
    /\ input_data = <<>>
    /\ is_llr = FALSE /\ soft_decision = FALSE
    /\ decoded_data = <<>> /\ errors_corrected = 0
    /\ syndromes = <<>>
    /\ num_test_patterns = 4 /\ algebraic_calls = {}
    /\ hard_word = <<>> /\ caller_input = <<>>
    \* the tests' setUp: GFContext(M=4); no GF(16) table entry exceeds 255,
    \* so both kinds of numpy build the same context
    /\ numpy_wraps = TRUE
    /\ M = 4 /\ P_poly = None
    /\ ctx = GFContext(4, None, TRUE)
    /\ gf_a = 0 /\ gf_b = 0 /\ gf_result = 0
    /\ NoRateMatcher
    /\ NoThreads

\* no decode or syndrome call has been made since the last encode
NoDecode ==
    /\ input_data' = <<>>
    /\ is_llr' = FALSE /\ soft_decision' = FALSE
    /\ decoded_data' = <<>> /\ errors_corrected' = 0
    /\ syndromes' = <<>>
    /\ num_test_patterns' = 4 /\ algebraic_calls' = {}
    /\ hard_word' = <<>> /\ caller_input' = <<>>

\* BCHGolayCoder(n, k, t, gf_context)
Construct ==
    /\ pc = "new"
    /\ \E p \in CodeParams :
          /\ n' = p[1] /\ k' = p[2] /\ t' = p[3]
    /\ generator_poly' = GeneratorPoly
    /\ r' = Len(GeneratorPoly) - 1
    /\ pc' = "idle"
    /\ UNCHANGED <<data, caller_data, codeword, outcome, input_data, is_llr,
                   soft_decision, decoded_data, errors_corrected, syndromes,
                   num_test_patterns, algebraic_calls, hard_word, caller_input>>
    /\ UNCHANGED <<gfvars, rmvars, threadvars>>

\* coder.encode(data)
Encode ==
    /\ pc = "idle"
    /\ \E len \in (k - LenSlack)..(k + LenSlack) :
       \E d \in BitVectors(len) :
          /\ data' = d
          /\ caller_data' = data_after_encode(d)
          /\ IF ShapeOk(d, k)
             THEN /\ codeword' = encode(d, generator_poly, k)
                  /\ outcome' = "ok"
             ELSE /\ codeword' = <<>>
                  /\ outcome' = "ValueError"
    /\ pc' = "encode"
    /\ NoDecode
    /\ UNCHANGED <<n, k, t, generator_poly, r>>
    /\ UNCHANGED <<gfvars, rmvars, threadvars>>

\* coder.decode(received, is_llr=False, soft_decision), received the last
\* codeword with flips
Decode ==
    /\ pc = "encode"
    /\ outcome = "ok"
    /\ \E F \in FlipSets(Len(codeword), t + ExtraFlips), soft \in BOOLEAN :
          LET received == Flip(codeword, F)
              res      == decode(received, FALSE, soft, k)
          IN  /\ input_data' = received
              /\ soft_decision' = soft
              /\ decoded_data' = res[1]
              /\ errors_corrected' = res[2]
              /\ algebraic_calls' = decode_calls(received, FALSE, soft)
              /\ hard_word' = hard_decision(received, FALSE)
              /\ caller_input' = input_after_decode(received)
    /\ is_llr' = FALSE
    /\ num_test_patterns' = 4
    /\ outcome' = "ok"
    /\ syndromes' = <<>>
    /\ pc' = "decode"
    /\ UNCHANGED <<n, k, t, generator_poly, r, data, caller_data, codeword>>
    /\ UNCHANGED <<gfvars, rmvars, threadvars>>

\* the LLR vectors received for a codeword: +-StrongLLR by the bit sent,
\* and any of -1, 0, 1 at the weak positions
LLRInputs(cw) ==
    {[j \in 1..Len(cw) |->
         IF (j - 1) \in WeakPositions THEN w[j - 1] ELSE StrongLLR * (1 - 2 * cw[j])] :
     w \in [WeakPositions -> {-1, 0, 1}]}

\* coder.decode(llrs, is_llr=True, soft_decision, num_test_patterns)
DecodeLLR ==
    /\ pc = "encode"
    /\ outcome = "ok"
    /\ \E llrs \in LLRInputs(codeword), soft \in BOOLEAN, ntp \in TestPatternCounts :
          LET res == decode(llrs, TRUE, soft, k)
          IN  /\ input_data' = llrs
              /\ soft_decision' = soft
              /\ num_test_patterns' = ntp
              /\ decoded_data' = res[1]
              /\ errors_corrected' = res[2]
              /\ algebraic_calls' = decode_calls(llrs, TRUE, soft)
              /\ hard_word' = hard_decision(llrs, TRUE)
              /\ caller_input' = input_after_decode(llrs)
    /\ is_llr' = TRUE
    /\ outcome' = "ok"
    /\ syndromes' = <<>>
    /\ pc' = "decode"
    /\ UNCHANGED <<n, k, t, generator_poly, r, data, caller_data, codeword>>
    /\ UNCHANGED <<gfvars, rmvars, threadvars>>

\* coder._calculate_syndromes(word), word the last codeword or the all-zero
\* n-bit word, with flips
CalculateSyndromes ==
    /\ pc = "encode"
    /\ outcome = "ok"
    /\ \E base \in {codeword, Zeros(n)} :
       \E F \in FlipSets(Len(base), MaxSyndromeFlips) :
          /\ input_data' = Flip(base, F)
          /\ syndromes' = _calculate_syndromes(Flip(base, F), t)
          /\ caller_input' = Flip(base, F)
    /\ is_llr' = FALSE
    /\ soft_decision' = FALSE
    /\ decoded_data' = <<>>
    /\ errors_corrected' = 0
    /\ num_test_patterns' = 4 /\ algebraic_calls' = {}
    /\ hard_word' = <<>>
    /\ outcome' = "ok"
    /\ pc' = "syndromes"
    /\ UNCHANGED <<n, k, t, generator_poly, r, data, caller_data, codeword>>
    /\ UNCHANGED <<gfvars, rmvars, threadvars>>

\* _numba_calculate_syndromes(word, coder.primitive_element_powers,
\* coder.ctx.inv_table, ctx.M, ctx.Q, coder.t, coder.n), the call written in
\* _calculate_syndromes' comment, on the words CalculateSyndromes takes
KernelSyndromes ==
    /\ pc = "encode"
    /\ outcome = "ok"
    /\ \E base \in {codeword, Zeros(n)} :
       \E F \in FlipSets(Len(base), MaxSyndromeFlips) :
       \E view \in KernelViews(Flip(base, F), n) :
          /\ input_data' = Flip(base, F)
          /\ caller_input' = Flip(base, F)
          /\ syndromes' = _numba_calculate_syndromes(view, ctx.anti_log_table,
                               ctx.inv_table, ctx.M, ctx.Q, t, n)
    /\ is_llr' = FALSE
    /\ soft_decision' = FALSE
    /\ decoded_data' = <<>>
    /\ errors_corrected' = 0
    /\ num_test_patterns' = 4 /\ algebraic_calls' = {}
    /\ hard_word' = <<>>
    /\ outcome' = "ok"
    /\ pc' = "kernel"
    /\ UNCHANGED <<n, k, t, generator_poly, r, data, caller_data, codeword>>
    /\ UNCHANGED <<gfvars, rmvars, threadvars>>

\* the caller drops the arrays of the calls made and starts over; the coder
\* keeps its fields
Discard ==
    /\ pc \in {"encode", "decode", "syndromes", "kernel"}
    /\ pc' = "idle"
    /\ data' = <<>> /\ caller_data' = <<>> /\ codeword' = <<>>
    /\ outcome' = "ok"
    /\ NoDecode
    /\ UNCHANGED <<n, k, t, generator_poly, r>>
    /\ UNCHANGED <<gfvars, rmvars, threadvars>>

\* gf_multiply(a, b, ...) on the tables of the coder's context, between the
\* coder's calls
FieldMultiply ==
    /\ pc = "idle"
    /\ \E a \in 0..(ctx.Q - 1), b \in 0..(ctx.Q - 1) :
          /\ gf_a' = a
          /\ gf_b' = b
          /\ gf_result' = gf_multiply(a, b, ctx.log_table, ctx.anti_log_table, ctx.M)
    /\ pc' = "field_multiply"
    /\ UNCHANGED <<numpy_wraps, M, P_poly, ctx>>
    /\ UNCHANGED <<codervars, rmvars, threadvars>>

\* gf_inverse(a, ctx.inv_table) on the coder's context
FieldInverse ==
    /\ pc = "idle"
    /\ \E a \in 0..(ctx.Q - 1) :
          /\ gf_a' = a
          /\ gf_result' = gf_inverse(a, ctx.inv_table)
    /\ gf_b' = 0
    /\ pc' = "field_inverse"
    /\ UNCHANGED <<numpy_wraps, M, P_poly, ctx>>
    /\ UNCHANGED <<codervars, rmvars, threadvars>>

\* the caller drops the result of the field operation
FieldDiscard ==
    /\ pc \in {"field_multiply", "field_inverse"}
    /\ pc' = "idle"
    /\ gf_a' = 0 /\ gf_b' = 0 /\ gf_result' = 0
    /\ UNCHANGED <<numpy_wraps, M, P_poly, ctx>>
    /\ UNCHANGED <<codervars, rmvars, threadvars>>

Next ==
    \/ Construct \/ Encode \/ Decode \/ DecodeLLR \/ CalculateSyndromes
    \/ KernelSyndromes \/ Discard
    \/ FieldMultiply \/ FieldInverse \/ FieldDiscard

Spec == Init /\ [][Next]_vars

(***************************************************************************)
(* The field context on its own: construction and the field operations.    *)
(***************************************************************************)
\* the (M, P_poly) a context is constructed with
FieldParams ==
    {<<m, None>> : m \in 0..MaxDegree}
        \cup {mp \in (2..MaxFullDegree) \X (1..(2 ^ (MaxFullDegree + 2) - 1)) :
                 mp[2] <= 4 * (2 ^ mp[1]) - 1}
        \cup LargeFields

\* the operands tried in a field of QQ elements: all of them in the small
\* fields, else 0..3, the powers of two and Q-1
Operands(QQ) ==
    IF QQ <= 2 ^ (MaxFullDegree + 1) THEN 0..(QQ - 1)
    ELSE {e \in 0..(QQ - 1) :
             e <= 3 \/ e = QQ - 1 \/ \E j \in 0..MaxDegree : e = 2 ^ j}

InitGF ==
    /\ pc = "gf_new"
    /\ n = 0 /\ k = 0 /\ t = 0
    /\ generator_poly = <<>>
    /\ r = 0
    /\ data = <<>> /\ caller_data = <<>> /\ codeword = <<>>
    /\ outcome = "ok"
    /\ input_data = <<>>
    /\ is_llr = FALSE /\ soft_decision = FALSE
    /\ decoded_data = <<>> /\ errors_corrected = 0
    /\ syndromes = <<>>
    /\ num_test_patterns = 4 /\ algebraic_calls = {}
    /\ hard_word = <<>> /\ caller_input = <<>>
    /\ numpy_wraps \in BOOLEAN
    /\ M = 0 /\ P_poly = None
    /\ ctx = NoContext("none")
    /\ gf_a = 0 /\ gf_b = 0 /\ gf_result = 0
    /\ NoRateMatcher
    /\ NoThreads

\* GFContext(M, P_poly)
ConstructGF ==
    /\ pc = "gf_new"
    /\ \E mp \in FieldParams :
          LET built == GFContext(mp[1], mp[2], numpy_wraps)
          IN  /\ M' = mp[1]
              /\ P_poly' = mp[2]
              /\ ctx' = built
              /\ pc' = IF built.outcome = "ok" THEN "gf_idle" ELSE "gf_failed"
    /\ UNCHANGED <<numpy_wraps, gf_a, gf_b, gf_result>>
    /\ UNCHANGED <<codervars, rmvars, threadvars>>

\* gf_multiply(a, b, ctx.log_table, ctx.anti_log_table, ctx.M)
Multiply ==
    /\ pc = "gf_idle"
    /\ \E a \in Operands(ctx.Q), b \in Operands(ctx.Q) :
          /\ gf_a' = a
          /\ gf_b' = b
          /\ gf_result' = gf_multiply(a, b, ctx.log_table, ctx.anti_log_table, ctx.M)
    /\ pc' = "multiply"
    /\ UNCHANGED <<numpy_wraps, M, P_poly, ctx>>
    /\ UNCHANGED <<codervars, rmvars, threadvars>>

\* gf_inverse(a, ctx.inv_table)
Inverse ==
    /\ pc = "gf_idle"
    /\ \E a \in Operands(ctx.Q) :
          /\ gf_a' = a
          /\ gf_result' = gf_inverse(a, ctx.inv_table)
    /\ gf_b' = 0
    /\ pc' = "inverse"
    /\ UNCHANGED <<numpy_wraps, M, P_poly, ctx>>
    /\ UNCHANGED <<codervars, rmvars, threadvars>>

\* the caller drops the result of the field operation; the context stays
DiscardGF ==
    /\ pc \in {"multiply", "inverse"}
    /\ pc' = "gf_idle"
    /\ gf_a' = 0 /\ gf_b' = 0 /\ gf_result' = 0
    /\ UNCHANGED <<numpy_wraps, M, P_poly, ctx>>
    /\ UNCHANGED <<codervars, rmvars, threadvars>>

NextGF == ConstructGF \/ Multiply \/ Inverse \/ DiscardGF

SpecGF == InitGF /\ [][NextGF]_vars

(***************************************************************************)
(* RateMatcher (rate_match.py).                                            *)
(***************************************************************************)
\* the loop of _numba_puncturing from pass i on; out is punctured_codeword[:idx]
RECURSIVE PuncturingLoop(_, _, _, _)
PuncturingLoop(cw, pattern, i, out) ==
    IF i >= Len(cw) THEN out
    ELSE PuncturingLoop(cw, pattern, i + 1,
             IF pattern[(i % Len(pattern)) + 1] = 1 THEN Append(out, cw[i + 1]) ELSE out)

\* _numba_puncturing; i % pattern_len raises for an empty pattern
_numba_puncturing(cw, pattern) ==
    IF Len(pattern) = 0 /\ Len(cw) > 0
    THEN [outcome |-> "ZeroDivisionError", value |-> <<>>]
    ELSE [outcome |-> "ok", value |-> PuncturingLoop(cw, pattern, 0, <<>>)]

\* the loop of _numba_depuncturing from pass i on
RECURSIVE DepuncturingLoop(_, _, _, _, _, _)
DepuncturingLoop(received, pattern, N, i, rx_idx, out) ==
    IF i >= N THEN out
    ELSE IF pattern[(i % Len(pattern)) + 1] = 1 /\ rx_idx < Len(received)
         THEN DepuncturingLoop(received, pattern, N, i + 1, rx_idx + 1,
                               [out EXCEPT ![i + 1] = received[rx_idx + 1]])
         ELSE DepuncturingLoop(received, pattern, N, i + 1, rx_idx, out)

\* _numba_depuncturing reading received_llrs[i] at a kept position i
_numba_depuncturing_positional(received, pattern, N, LLR_null) ==
    IF Len(pattern) = 0 /\ N > 0
    THEN [outcome |-> "ZeroDivisionError", value |-> <<>>]
    ELSE [outcome |-> "ok",
          value |-> [i \in 1..N |->
                        IF pattern[((i - 1) % Len(pattern)) + 1] = 1 /\ i <= Len(received)
                        THEN received[i] ELSE LLR_null]]

\* _numba_depuncturing
_numba_depuncturing(received, pattern, N, LLR_null) ==
    IF Len(pattern) = 0 /\ N > 0
    THEN [outcome |-> "ZeroDivisionError", value |-> <<>>]
    ELSE [outcome |-> "ok",
          value |-> DepuncturingLoop(received, pattern, N, 0, 0, [i \in 1..N |-> LLR_null])]

\* no coder has been constructed
NoCoder ==
    /\ n = 0 /\ k = 0 /\ t = 0
    /\ generator_poly = <<>>
    /\ r = 0
    /\ data = <<>> /\ caller_data = <<>> /\ codeword = <<>>
    /\ outcome = "ok"
    /\ input_data = <<>>
    /\ is_llr = FALSE /\ soft_decision = FALSE
    /\ decoded_data = <<>> /\ errors_corrected = 0
    /\ syndromes = <<>>
    /\ num_test_patterns = 4 /\ algebraic_calls = {}
    /\ hard_word = <<>> /\ caller_input = <<>>

\* the tests' field context, GFContext(M=4)
TestContext ==
    /\ numpy_wraps = TRUE
    /\ M = 4 /\ P_poly = None
    /\ ctx = GFContext(4, None, TRUE)
    /\ gf_a = 0 /\ gf_b = 0 /\ gf_result = 0

\* the binary patterns a RateMatcher is constructed with
Patterns == UNION {BitVectors(len) : len \in 0..MaxPatternLen}

\* the arrays handed to puncture
SoftVectors == UNION {[1..len -> SoftValues] : len \in 0..MaxN}

InitRM ==
    /\ pc = "rm_new"
    /\ NoCoder
    /\ TestContext
    /\ NoRateMatcher
    /\ NoThreads

\* RateMatcher(code_rate, original_N, target_N, puncturing_pattern)
ConstructRM ==
    /\ pc = "rm_new"
    /\ \E N \in 0..MaxN, pattern \in Patterns :
          /\ original_N' = N
          /\ target_N' = Cardinality({i \in 0..(N - 1) :
                                        pattern # <<>> /\ pattern[(i % Len(pattern)) + 1] = 1})
          /\ puncturing_pattern' = pattern
    /\ pc' = "rm_idle"
    /\ UNCHANGED <<rm_codeword, punctured_codeword, received_llrs, depunctured_llrs,
                   rm_outcome>>
    /\ UNCHANGED <<codervars, gfvars, threadvars>>

\* matcher.puncture(codeword)
Puncture ==
    /\ pc = "rm_idle"
    /\ \E cw \in SoftVectors :
          LET res == _numba_puncturing(cw, puncturing_pattern)
          IN  /\ rm_codeword' = cw
              /\ punctured_codeword' = res.value
              /\ rm_outcome' = res.outcome
    /\ received_llrs' = <<>> /\ depunctured_llrs' = <<>>
    /\ pc' = "puncture"
    /\ UNCHANGED <<original_N, target_N, puncturing_pattern>>
    /\ UNCHANGED <<codervars, gfvars, threadvars>>

\* matcher.depuncture(received_llrs), received_llrs the punctured values, the
\* first few of them, or these and one more
Depuncture ==
    /\ pc = "puncture"
    /\ rm_outcome = "ok"
    /\ \E received \in {SubSeq(punctured_codeword, 1, len) :
                            len \in 0..Len(punctured_codeword)}
                       \cup {Append(punctured_codeword, 1)} :
          LET res == _numba_depuncturing(received, puncturing_pattern, original_N, 0)
          IN  /\ received_llrs' = received
              /\ depunctured_llrs' = res.value
              /\ rm_outcome' = res.outcome
    /\ pc' = "depuncture"
    /\ UNCHANGED <<original_N, target_N, puncturing_pattern, rm_codeword,
                   punctured_codeword>>
    /\ UNCHANGED <<codervars, gfvars, threadvars>>

\* the caller drops the arrays of the calls made; the matcher keeps its fields
DiscardRM ==
    /\ pc \in {"puncture", "depuncture"}
    /\ rm_codeword' = <<>> /\ punctured_codeword' = <<>>
    /\ received_llrs' = <<>> /\ depunctured_llrs' = <<>>
    /\ rm_outcome' = "ok"
    /\ pc' = "rm_idle"
    /\ UNCHANGED <<original_N, target_N, puncturing_pattern>>
    /\ UNCHANGED <<codervars, gfvars, threadvars>>

NextRM == ConstructRM \/ Puncture \/ Depuncture \/ DiscardRM

SpecRM == InitRM /\ [][NextRM]_vars

(***************************************************************************)
(* Several threads calling encode and hard decode on one coder.  A call    *)
(* goes in steps; between two steps of one call the other threads run.     *)
(***************************************************************************)
Threads == 1..NumThreads

\* the coder the threads share: the tests' BCHGolayCoder(15, 7, 2, ctx)
SharedCoder == <<15, 7, 2>>

\* the arrays the threads encode; the last has the wrong length
ThreadData == {<<0, 0, 0, 0, 0, 0, 0>>, <<1, 0, 1, 1, 0, 0, 1>>, <<1, 1, 1, 1, 1, 1, 1, 1>>}

\* the words the threads decode: codewords of the shared coder, some with
\* bit 0 flipped
ThreadWords ==
    {Flip(encode(d, GeneratorPoly, SharedCoder[2]), F) :
        d \in {e \in ThreadData : ShapeOk(e, SharedCoder[2])}, F \in {{}, {0}}}

\* all calls keeping their parameters and locals in the frame of thread 1
frame_shared(th) == 1

\* the frame holding a call's parameters and locals: one per call
frame_of(th) == th

InitThreads ==
    /\ pc = "threads"
    /\ n = SharedCoder[1] /\ k = SharedCoder[2] /\ t = SharedCoder[3]
    /\ generator_poly = GeneratorPoly
    /\ r = Len(GeneratorPoly) - 1
    /\ data = <<>> /\ caller_data = <<>> /\ codeword = <<>>
    /\ outcome = "ok"
    /\ input_data = <<>>
    /\ is_llr = FALSE /\ soft_decision = FALSE
    /\ decoded_data = <<>> /\ errors_corrected = 0
    /\ syndromes = <<>>
    /\ num_test_patterns = 4 /\ algebraic_calls = {}
    /\ hard_word = <<>> /\ caller_input = <<>>
    /\ TestContext
    /\ NoRateMatcher
    /\ th_pc = [th \in Threads |-> "idle"]
    /\ th_op = [th \in Threads |-> "none"]
    /\ th_input = [th \in Threads |-> <<>>]
    /\ th_data = [th \in Threads |-> <<>>]
    /\ th_tmp = [th \in Threads |-> <<>>]
    /\ th_result = [th \in Threads |-> <<>>]

\* a thread calls coder.encode(data) or coder.decode(word, is_llr=False):
\* the argument is bound in the call's frame
ThreadCall ==
    /\ pc = "threads"
    /\ \E th \in Threads :
          /\ th_pc[th] = "idle"
          /\ \E op \in {"encode", "decode"} :
             \E arg \in IF op = "encode" THEN ThreadData ELSE ThreadWords :
                /\ th_op' = [th_op EXCEPT ![th] = op]
                /\ th_input' = [th_input EXCEPT ![th] = arg]
                /\ th_data' = [th_data EXCEPT ![frame_of(th)] = arg]
          /\ th_pc' = [th_pc EXCEPT ![th] = "called"]
    /\ UNCHANGED <<th_tmp, th_result>>
    /\ UNCHANGED <<pc, codervars, gfvars, rmvars>>

\* encode: the shape check, then parity = _numba_cyclic_division(...)
ThreadEncodeDivide ==
    /\ pc = "threads"
    /\ \E th \in Threads :
          /\ th_pc[th] = "called" /\ th_op[th] = "encode"
          /\ IF ShapeOk(th_data[frame_of(th)], k)
             THEN /\ th_tmp' = [th_tmp EXCEPT ![frame_of(th)] =
                         _numba_cyclic_division(th_data[frame_of(th)], generator_poly, k)]
                  /\ th_pc' = [th_pc EXCEPT ![th] = "divided"]
                  /\ UNCHANGED th_result
             ELSE /\ th_result' = [th_result EXCEPT ![th] = <<"ValueError", <<>>>>]
                  /\ th_pc' = [th_pc EXCEPT ![th] = "returned"]
                  /\ UNCHANGED th_tmp
    /\ UNCHANGED <<th_op, th_input, th_data>>
    /\ UNCHANGED <<pc, codervars, gfvars, rmvars>>

\* encode: codeword = np.concatenate((data, parity)); return codeword
ThreadEncodeReturn ==
    /\ pc = "threads"
    /\ \E th \in Threads :
          /\ th_pc[th] = "divided"
          /\ th_result' = [th_result EXCEPT ![th] =
                  <<"ok", th_data[frame_of(th)] \o th_tmp[frame_of(th)]>>]
          /\ th_pc' = [th_pc EXCEPT ![th] = "returned"]
    /\ UNCHANGED <<th_op, th_input, th_data, th_tmp>>
    /\ UNCHANGED <<pc, codervars, gfvars, rmvars>>

\* decode: hard_codeword = input_data.astype(np.uint8)
ThreadDecodeHard ==
    /\ pc = "threads"
    /\ \E th \in Threads :
          /\ th_pc[th] = "called" /\ th_op[th] = "decode"
          /\ th_tmp' = [th_tmp EXCEPT ![frame_of(th)] =
                            hard_decision(th_data[frame_of(th)], FALSE)]
          /\ th_pc' = [th_pc EXCEPT ![th] = "hard_decided"]
    /\ UNCHANGED <<th_op, th_input, th_data, th_result>>
    /\ UNCHANGED <<pc, codervars, gfvars, rmvars>>

\* decode: return self._decode_algebraic(hard_codeword)
ThreadDecodeReturn ==
    /\ pc = "threads"
    /\ \E th \in Threads :
          /\ th_pc[th] = "hard_decided"
          /\ th_result' = [th_result EXCEPT ![th] =
                  <<"ok", _decode_algebraic(th_tmp[frame_of(th)], k)>>]
          /\ th_pc' = [th_pc EXCEPT ![th] = "returned"]
    /\ UNCHANGED <<th_op, th_input, th_data, th_tmp>>
    /\ UNCHANGED <<pc, codervars, gfvars, rmvars>>

\* the thread takes its result; the call's frame is gone
ThreadDone ==
    /\ pc = "threads"
    /\ \E th \in Threads :
          /\ th_pc[th] = "returned"
          /\ th_pc' = [th_pc EXCEPT ![th] = "idle"]
          /\ th_op' = [th_op EXCEPT ![th] = "none"]
          /\ th_input' = [th_input EXCEPT ![th] = <<>>]
          /\ th_result' = [th_result EXCEPT ![th] = <<>>]
          /\ th_data' = [th_data EXCEPT ![frame_of(th)] = <<>>]
          /\ th_tmp' = [th_tmp EXCEPT ![frame_of(th)] = <<>>]
    /\ UNCHANGED <<pc, codervars, gfvars, rmvars>>

NextThreads ==
    \/ ThreadCall \/ ThreadEncodeDivide \/ ThreadEncodeReturn
    \/ ThreadDecodeHard \/ ThreadDecodeReturn \/ ThreadDone

SpecThreads == InitThreads /\ [][NextThreads]_vars

(***************************************************************************)
(* Notions the claims use.                                                 *)
(***************************************************************************)
IsZero(word) == \A i \in 1..Len(word) : word[i] = 0

\* number of positions in which two words of equal length differ
HammingDistance(a, b) == Cardinality({i \in 1..Len(a) : a[i] # b[i]})

\* remainder of word(x) divided by g(x) over GF(2), highest degree first
Remainder(word, g) ==
    LET deg == Len(g) - 1
    IN  IF Len(word) <= deg THEN word
        ELSE SubSeq(DivisionLoop(word, g, 0, Len(word) - deg),
                    Len(word) - deg + 1, Len(word))

\* the word is a multiple of the generator polynomial
IsCodeword(word, g) == IsZero(Remainder(word, g))

\* a hard-mode decode has just returned
HardDecoded == pc = "decode" /\ ~is_llr /\ ~soft_decision

\* an encode has just returned a codeword
Encoded == pc = "encode" /\ outcome = "ok"

\* a(x) * x modulo P(x) over GF(2), for P of degree MM
MulX(a, P, MM) ==
    LET shifted == a * 2
    IN  IF shifted >= 2 ^ MM THEN BitXor(shifted, P) ELSE shifted

\* the product a(x) * b(x) modulo P(x) over GF(2), for P of degree MM
RECURSIVE FieldProduct(_, _, _, _)
FieldProduct(a, b, P, MM) ==
    IF b = 0 THEN 0
    ELSE BitXor(IF b % 2 = 1 THEN a ELSE 0,
                FieldProduct(MulX(a, P, MM), b \div 2, P, MM))

\* P has degree MM
HasDegree(P, MM) == 2 ^ MM <= P /\ P < 2 ^ (MM + 1)

\* P is primitive of degree MM: the powers x^0 .. x^(Q-2) modulo P are the
\* Q-1 nonzero elements
IsPrimitive(P, MM) ==
    /\ HasDegree(P, MM)
    /\ LET powers == AlphaSeq(1, 2 ^ MM - 1, 2 ^ MM, P)
       IN  {powers[i] : i \in 1..(2 ^ MM - 1)} = 1..(2 ^ MM - 1)

\* alpha^1 .. alpha^(2 tt) are roots of g (highest degree first): in the sum
\* of the terms alpha^(i e) with coefficient 1, every bit cancels.
\* powers[e + 1] is x^e modulo P(x), the element alpha^e of the field
HasDesignRoots(g, tt, P, MM) ==
    LET powers == AlphaSeq(1, 2 * tt * (Len(g) - 1) + 1, 2 ^ MM, P)
    IN  \A i \in 1..(2 * tt) : \A b \in 0..(MM - 1) :
            Cardinality({j \in 1..Len(g) :
                g[j] = 1 /\ (powers[i * (Len(g) - j) + 1] \div (2 ^ b)) % 2 = 1}) % 2 = 0

\* g is the least common multiple of the minimal polynomials of
\* alpha^1 .. alpha^(2 tt): monic with these roots, and no nonzero binary
\* polynomial of lower degree has them
IsBCHGenerator(g, tt, P, MM) ==
    /\ Len(g) >= 1 /\ g[1] = 1
    /\ HasDesignRoots(g, tt, P, MM)
    /\ \A len \in 1..(Len(g) - 1) : \A h \in BitVectors(len) :
          h[1] = 1 => ~HasDesignRoots(h, tt, P, MM)

\* a coder has just been constructed
Constructed == pc = "idle" /\ data = <<>>

\* the subsets of S with m elements
RECURSIVE KSubsets(_, _)
KSubsets(S, m) ==
    IF m = 0 THEN {{}}
    ELSE IF S = {} THEN {}
    ELSE LET x == CHOOSE y \in S : TRUE
         IN  KSubsets(S \ {x}, m) \cup {T \cup {x} : T \in KSubsets(S \ {x}, m - 1)}

Abs(v) == IF v < 0 THEN 0 - v ELSE v

\* the sets of L (Python) positions of llrs none of which is more reliable
\* than a position left out
LeastReliableSets(llrs, L) ==
    LET rel(i) == Abs(llrs[i + 1])
        pos == 0..(Len(llrs) - 1)
        theta == CHOOSE v \in {rel(i) : i \in pos} :
                    /\ Cardinality({i \in pos : rel(i) <= v}) >= L
                    /\ Cardinality({i \in pos : rel(i) < v}) < L
        sure == {i \in pos : rel(i) < theta}
        tied == {i \in pos : rel(i) = theta}
    IN  IF L = 0 THEN {{}}
        ELSE {sure \cup T : T \in KSubsets(tied, L - Cardinality(sure))}

\* a Chase decode has just returned
ChaseDecoded == pc = "decode" /\ is_llr /\ soft_decision

\* a GFContext has just been returned to the caller
ContextBuilt == pc = "gf_idle"

\* a GFContext(M, P_poly) call has just ended, with a context or an exception
ConstructionEnded == pc \in {"gf_idle", "gf_failed"}

(***************************************************************************)
(* The claims.                                                             *)
(***************************************************************************)
\* C1: hard-mode decode of encode(data) returns (data, 0).
C1_RoundTrip ==
    (HardDecoded /\ input_data = codeword) =>
        (outcome = "ok" /\ decoded_data = data /\ errors_corrected = 0)

C1_Witness ==
    /\ HardDecoded /\ input_data = codeword
    /\ k = 7 /\ ~IsZero(data)
    /\ decoded_data = data

\* C2: flipping exactly t bits of encode(data) and decoding in hard mode
\* returns the original data with corrected_count = t.
C2_TErrorsCorrected ==
    (HardDecoded /\ HammingDistance(input_data, codeword) = t) =>
        (outcome = "ok" /\ decoded_data = data /\ errors_corrected = t)

\* C3: for a word that differs from a valid codeword in 1..t+1 positions (and
\* is not itself an output of encode), hard-mode decode never returns a
\* successful result with corrected_count = 0.
C3_NoSilentZero ==
    (/\ HardDecoded
     /\ HammingDistance(input_data, codeword) \in 1..(t + 1)
     /\ input_data # encode(PySlice(input_data, 0, k), generator_poly, k)) =>
        ~(outcome = "ok" /\ errors_corrected = 0)

\* C4: encode returns a codeword of exactly n bits.
C4_CodewordLength == Encoded => Len(codeword) = n

\* C5: the parity bits encode appends are the trailing deg(g) bits of the
\* working frame after the k conditional XOR steps.
C5_ParityIsRemainder ==
    Encoded =>
        PySlice(codeword, k, Len(codeword)) =
            SubSeq(WorkingFrame(data, generator_poly, k), k + 1, k + r)

\* C6: the first k bits of encode(data) equal data, and encode leaves the
\* caller's data array as it was.
C6_Systematic ==
    Encoded => (SubSeq(codeword, 1, k) = data /\ caller_data = data)

C6_Witness == Encoded /\ k = 7 /\ ~IsZero(data) /\ SubSeq(codeword, 1, k) = data

\* C7: encoding the all-zero data vector of length k yields a codeword in
\* which every bit is 0.
C7_ZeroData ==
    (Encoded /\ IsZero(data)) => (Len(codeword) >= k /\ IsZero(codeword))

C7_Witness == Encoded /\ k = 7 /\ data = Zeros(7) /\ codeword = Zeros(14)

\* C8: the syndrome vector of a word is all zero if and only if the word is
\* a multiple of the generator polynomial.
C8_SyndromeIffCodeword ==
    pc = "syndromes" => (IsZero(syndromes) <=> IsCodeword(input_data, generator_poly))

\* C9: for the all-zero n-bit word with a single 1 at position 0 the
\* syndromes are S_i = 1 for every i in 1..2t.
C9_SingleErrorSyndrome ==
    (pc = "syndromes" /\ input_data = Flip(Zeros(n), {0})) =>
        syndromes = [i \in 1..(2 * t) |-> 1]

\* C10: the syndrome of the all-zero n-bit word is the all-zero vector of 2t
\* field elements.
C10_ZeroSyndrome ==
    (pc = "syndromes" /\ input_data = Zeros(n)) =>
        (Len(syndromes) = 2 * t /\ IsZero(syndromes))

C10_Witness ==
    /\ pc = "syndromes" /\ n = 15 /\ t = 2
    /\ input_data = Zeros(15) /\ syndromes = <<0, 0, 0, 0>>

\* C11: for every M in 2..16 and every primitive polynomial of degree M, the
\* tables of the constructed context satisfy log[antilog[i]] = i for all i in
\* 0..Q-2, and antilog[0..Q-2] holds each nonzero element exactly once.
C11_TablesInverse ==
    (ContextBuilt /\ IsPrimitive(ctx.P_poly, ctx.M)) =>
        /\ \A i \in 0..(ctx.Q - 2) : ctx.log_table[ctx.anti_log_table[i]] = i
        /\ {ctx.anti_log_table[i] : i \in 0..(ctx.Q - 2)} = 1..(ctx.Q - 1)

\* C12: for all field elements a, b, multiply(a, b) is the field product of
\* a and b; in particular multiply(1, x) = x and multiply(0, x) = 0.
C12_MultiplyIsProduct ==
    (pc = "multiply" /\ IsPrimitive(ctx.P_poly, ctx.M)) =>
        gf_result = FieldProduct(gf_a, gf_b, ctx.P_poly, ctx.M)

\* C13: for every nonzero a, multiply(a, inverse(a)) = 1; inverse(0) = 0; in
\* GF(16) with x^4 + x + 1, inverse(1) = 1.  (The claim's other example,
\* inverse(2) = 13, contradicts its first part, 2 * 13 being 9 in that field;
\* C13_InverseOfTwo states it.)
C13_InverseRoundTrip ==
    (pc = "inverse" /\ IsPrimitive(ctx.P_poly, ctx.M)) =>
        /\ gf_a # 0 =>
              gf_multiply(gf_a, gf_result, ctx.log_table, ctx.anti_log_table, ctx.M) = 1
        /\ gf_a = 0 => gf_result = 0
        /\ (ctx.M = 4 /\ ctx.P_poly = 19 /\ gf_a = 1) => gf_result = 1

\* the example of C13: in GF(16) with x^4 + x + 1, inverse(2) = 13
C13_InverseOfTwo ==
    (pc = "inverse" /\ ctx.M = 4 /\ ctx.P_poly = 19 /\ gf_a = 2) => gf_result = 13

\* C14: construction fails whenever the supplied polynomial is not primitive:
\* no context is returned for a polynomial that is not primitive of degree M.
C14_NonPrimitiveRejected ==
    ContextBuilt => IsPrimitive(ctx.P_poly, ctx.M)

\* C15: construction fails with the invalid-degree error for every M outside
\* 2..16, and for M in 2..16 with P_poly omitted it fails with the
\* unsupported-degree error exactly when no polynomial is registered for M;
\* a failed construction leaves no context.
C15_ArgumentsRejected ==
    ConstructionEnded =>
        /\ ~(2 <= M /\ M <= 16) => ctx.outcome = "ValueError"
        /\ (2 <= M /\ M <= 16 /\ P_poly = None) =>
              (ctx.outcome = "NotImplementedError" <=> M \notin {4, 6, 8})
        /\ ctx.outcome \in {"ValueError", "NotImplementedError"} =>
              (pc = "gf_failed" /\ ctx = NoContext(ctx.outcome))

C15_Witness ==
    /\ pc = "gf_failed"
    /\ M = 5 /\ P_poly = None /\ ctx.outcome = "NotImplementedError"
    /\ ctx.log_table = <<>>

\* C16: encode fails with an input-length error for every data vector whose
\* length differs from k, and returns no codeword then
C16_WrongLengthRejected ==
    (pc = "encode" /\ Len(data) # k) => (outcome = "ValueError" /\ codeword = <<>>)

\* an encode of k + 1 bits has failed
C16_Witness ==
    pc = "encode" /\ Len(data) = k + 1 /\ outcome = "ValueError" /\ codeword = <<>>

\* C17: no coder exists whose n - k differs from the degree of the generator
\* polynomial it holds
C17_ParametersConsistent ==
    pc # "new" => n - k = Len(generator_poly) - 1

\* C18: after construction the generator polynomial is the least common
\* multiple of the minimal polynomials of alpha^1 .. alpha^(2t) of the
\* coder's field, and has degree n - k
C18_GeneratorIsLCM ==
    Constructed =>
        /\ Len(generator_poly) - 1 = n - k
        /\ IsBCHGenerator(generator_poly, t, ctx.P_poly, ctx.M)

\* C19: Chase decode runs the algebraic decode on the hard decision with
\* every one of the 2^L patterns over the L = min(num_test_patterns, n) least
\* reliable positions flipped, and returns the data of one of these trials
C19_ChaseTriesAllPatterns ==
    ChaseDecoded =>
        LET L == IF num_test_patterns < n THEN num_test_patterns ELSE n
            hard == llr_to_hard_bits(input_data)
        IN  /\ \E S \in LeastReliableSets(input_data, L) :
                  algebraic_calls = {Flip(hard, F) : F \in SUBSET S}
            /\ \E w \in algebraic_calls : decoded_data = _decode_algebraic(w, k)[1]

C22_HardDecision ==
    (pc = "decode" /\ is_llr) =>
        /\ Len(hard_word) = Len(input_data)
        /\ \A i \in 1..Len(input_data) :
              /\ hard_word[i] \in {0, 1}
              /\ hard_word[i] = 1 <=> input_data[i] < 0

\* LLRs with a zero, a negative and a positive value have been decided
C22_Witness ==
    /\ pc = "decode" /\ is_llr
    /\ \E i, j, l \in 1..Len(input_data) :
          /\ input_data[i] = 0 /\ hard_word[i] = 0
          /\ input_data[j] < 0 /\ hard_word[j] = 1
          /\ input_data[l] > 0 /\ hard_word[l] = 0

\* C25: for an n-bit word r and i in 1..2t the kernel returns S_i equal to the
\* XOR, over the positions j with r[j] = 1, of alpha^(i j mod (Q - 1))
C25_KernelSyndromes ==
    (pc = "kernel" /\ Len(input_data) = n) =>
        LET alpha == AlphaSeq(1, ctx.Q - 1, ctx.Q, ctx.P_poly)
            term(i) == [j \in 1..n |-> alpha[((i * (j - 1)) % (ctx.Q - 1)) + 1]]
        IN  \A i \in 1..(2 * t) :
                syndromes[i] = XorOf(term(i), {j \in 1..n : input_data[j] = 1})

KeptPositions(len, pattern) ==
    {i \in 0..(len - 1) : pattern[(i % Len(pattern)) + 1] = 1}

\* the number of kept positions before position i
KeptBefore(i, pattern) == Cardinality(KeptPositions(i, pattern))

\* C27: puncture(c) is the subsequence of c at the kept positions, in order;
\* depuncture(puncture(c)) with original_N = len(c) has length N, equals c at
\* every kept position and is the null LLR 0 at every punctured position;
\* given fewer values than kept positions, depuncture fills the first kept
\* positions and leaves the null LLR at the others, without an error
C27_PunctureDepuncture ==
    (pc \in {"puncture", "depuncture"} /\ Len(puncturing_pattern) >= 1) =>
        LET p    == puncturing_pattern
            c    == rm_codeword
            kept == KeptPositions(Len(c), p)
        IN  /\ rm_outcome = "ok"
            /\ Len(punctured_codeword) = Cardinality(kept)
            /\ \A i \in kept : punctured_codeword[KeptBefore(i, p) + 1] = c[i + 1]
            /\ pc = "depuncture" =>
                  /\ Len(depunctured_llrs) = original_N
                  /\ \A i \in 0..(original_N - 1) :
                        depunctured_llrs[i + 1] =
                            IF i \in KeptPositions(original_N, p)
                               /\ KeptBefore(i, p) < Len(received_llrs)
                            THEN received_llrs[KeptBefore(i, p) + 1]
                            ELSE 0
                  /\ (original_N = Len(c) /\ received_llrs = punctured_codeword) =>
                        \A i \in 0..(original_N - 1) :
                            depunctured_llrs[i + 1] = IF i \in kept THEN c[i + 1] ELSE 0

\* a codeword with nonzero values at a punctured and at a later kept position
\* has gone through puncture and depuncture
C27_Witness ==
    /\ pc = "depuncture" /\ rm_outcome = "ok"
    /\ puncturing_pattern = <<0, 1, 1>>
    /\ original_N = 4 /\ rm_codeword = <<1, -1, 1, -1>>
    /\ received_llrs = punctured_codeword
    /\ depunctured_llrs = <<0, -1, 1, 0>>

\* fewer values than kept positions have been depunctured
C27_ShortWitness ==
    /\ pc = "depuncture" /\ rm_outcome = "ok"
    /\ puncturing_pattern = <<1>>
    /\ original_N = 3 /\ received_llrs = <<-1>>
    /\ depunctured_llrs = <<-1, 0, 0>>

\* C23: after construction no call changes the context's tables or the
\* coder's n, k, t and generator polynomial, and the array the caller passed
\* to encode or decode is as it was
C23_Immutable ==
    /\ [](caller_data = data /\ caller_input = input_data)
    /\ [][pc # "new" =>
            /\ ctx' = ctx
            /\ n' = n /\ k' = k /\ t' = t
            /\ generator_poly' = generator_poly]_vars

\* a decode of LLRs has returned after an encode, on the coder and context
\* as constructed
C23_Witness ==
    /\ pc = "decode" /\ is_llr
    /\ \E i \in 1..Len(data) : data[i] = 1
    /\ caller_data = data /\ caller_input = input_data
    /\ generator_poly = GeneratorPoly
    /\ ctx = GFContext(4, None, TRUE)

\* what the call a thread made returns when it runs alone
AloneResult(op, arg) ==
    IF op = "encode"
    THEN IF Len(arg) = k THEN <<"ok", encode(arg, generator_poly, k)>>
         ELSE <<"ValueError", <<>>>>
    ELSE <<"ok", decode(arg, FALSE, FALSE, k)>>

\* C24: whatever the interleaving of the encode and hard-decode calls several
\* threads make on one coder, every call returns what it returns alone
C24_ThreadSafe ==
    pc = "threads" =>
        \A th \in Threads :
            th_pc[th] = "returned" => th_result[th] = AloneResult(th_op[th], th_input[th])

\* an encode has returned its codeword while a decode of another thread, on
\* a different array, is between two of its steps
C24_Witness ==
    /\ pc = "threads"
    /\ \E th, other \in Threads :
          /\ th # other
          /\ th_pc[th] = "returned" /\ th_op[th] = "encode"
          /\ th_result[th] = <<"ok", encode(th_input[th], generator_poly, k)>>
          /\ th_pc[other] = "hard_decided" /\ th_op[other] = "decode"
          /\ th_input[other] # th_result[th][2]

====
